---- MODULE Spec2Model ----
(***************************************************************************)
(* The two deployment scripts of SimpleDEX's contracts/ directory:         *)
(*   extract-pairs.py            the resolver: asks the factory for the    *)
(*                               pair addresses and writes them to         *)
(*                               contracts/.env and dex-frontend/.env.local*)
(*   update-frontend-config.py   the synchronizer: rewrites .env.local and *)
(*                               four TypeScript files from contracts/.env *)
(*                                                                         *)
(* Text is modelled as it is on disk.  A string is a sequence of           *)
(* one-character strings.  An environment file (.env, .env.local) is a     *)
(* sequence of lines, each a string without its line feed (the scripts     *)
(* read these files line by line and write whole lines; every line of a    *)
(* file ends with a line feed).  A TypeScript file is one string with its  *)
(* line feeds in it (the scripts run regular expressions over the whole    *)
(* content).                                                               *)
(***************************************************************************)
EXTENDS Integers, Sequences, FiniteSets, TLC

VARIABLES
    cenv,          \* contracts/.env: [ex |-> exists, txt |-> its lines]
    envLocal,      \* dex-frontend/.env.local: [ex, txt |-> its lines]
    frontendDir,   \* whether the directory dex-frontend exists
    tokensTs,      \* dex-frontend/src/app/config/tokens.ts: [ex, txt |-> content]
    priceFeedsTs,  \* dex-frontend/src/app/config/priceFeeds.ts
    pageTsx,       \* dex-frontend/src/app/page.tsx
    depTokensTs,   \* dex-frontend/src/config/tokens.ts (deprecated)
    last,          \* the operation that led to this state and how it ended
    left           \* operations the behaviour still has

vars == <<cenv, envLocal, frontendDir, tokensTs, priceFeedsTs, pageTsx, depTokensTs, last, left>>

artifacts == <<envLocal, tokensTs, priceFeedsTs, pageTsx, depTokensTs>>

-----------------------------------------------------------------------------
(* Strings *)

NoFile == [ex |-> FALSE, txt |-> <<>>]

File(t) == [ex |-> TRUE, txt |-> t]

\* The characters str.strip() removes that can stand inside a line.
IsSpace(c) == c \in {" ", "\t", "\r"}

RECURSIVE LStrip(_)
LStrip(s) == IF s # <<>> /\ IsSpace(Head(s)) THEN LStrip(Tail(s)) ELSE s

RECURSIVE RStrip(_)
RStrip(s) == IF s # <<>> /\ IsSpace(s[Len(s)]) THEN RStrip(SubSeq(s, 1, Len(s) - 1)) ELSE s

\* str.strip()
Strip(s) == RStrip(LStrip(s))

\* str.startswith(p)
StartsWith(s, p) == Len(s) >= Len(p) /\ SubSeq(s, 1, Len(p)) = p

\* the least element of a non-empty set of numbers
MinOf(S) == CHOOSE i \in S : \A j \in S : i <= j

\* str.find(c) for a one-character c, counted from 1; 0 when c is not in s
FindChar(s, c) ==
    LET at == {i \in 1..Len(s) : s[i] = c}
    IN  IF at = {} THEN 0 ELSE MinOf(at)

\* where the string p starts in s at or after position from; 0 when nowhere
FindFrom(s, p, from) ==
    LET at == {i \in from..(Len(s) - Len(p) + 1) :
                  s[i] = p[1] /\ SubSeq(s, i, i + Len(p) - 1) = p}
    IN  IF at = {} THEN 0 ELSE MinOf(at)

LowerCase == <<"a","b","c","d","e","f","g","h","i","j","k","l","m","n","o","p","q","r","s","t","u","v","w","x","y","z">>

UpperCase == <<"A","B","C","D","E","F","G","H","I","J","K","L","M","N","O","P","Q","R","S","T","U","V","W","X","Y","Z">>

\* str.upper()
Upper(s) ==
    [i \in 1..Len(s) |->
        IF \E k \in 1..26 : LowerCase[k] = s[i]
        THEN UpperCase[CHOOSE k \in 1..26 : LowerCase[k] = s[i]]
        ELSE s[i]]

\* str.lower()
Lower(s) ==
    [i \in 1..Len(s) |->
        IF \E k \in 1..26 : UpperCase[k] = s[i]
        THEN LowerCase[CHOOSE k \in 1..26 : UpperCase[k] = s[i]]
        ELSE s[i]]

\* str.replace(c, r) for a one-character c
RECURSIVE Replace(_, _, _)
Replace(s, c, r) ==
    IF s = <<>> THEN <<>>
    ELSE (IF Head(s) = c THEN r ELSE <<Head(s)>>) \o Replace(Tail(s), c, r)

-----------------------------------------------------------------------------
(* Dictionaries: a function from the keys present to their values *)

EmptyDict == [k \in {} |-> <<>>]

\* d[k] = v
DictPut(d, k, v) == [x \in (DOMAIN d) \cup {k} |-> IF x = k THEN v ELSE d[x]]

\* d.get(k, default)
DictGet(d, k, default) == IF k \in DOMAIN d THEN d[k] ELSE default

\* One line of an environment file as the reading loops take it: <<key, value>>,
\* or the empty sequence for a blank line, a comment line and a line
\* without "=".
ParseLine(l) ==
    LET line == Strip(l)
        eq   == FindChar(line, "=")
    IN  IF line # <<>> /\ line[1] # "#" /\ eq > 0
        THEN <<Strip(SubSeq(line, 1, eq - 1)), Strip(SubSeq(line, eq + 1, Len(line)))>>
        ELSE <<>>

\* The loop that reads KEY=value lines into a dictionary: every key that
\* stands on a line, with the value of the last line that sets it.
ParseEnv(lines) ==
    LET IsEntry(e) == e # <<>>
        entries == SelectSeq([i \in 1..Len(lines) |-> ParseLine(lines[i])], IsEntry)
        LastOf(k) == CHOOSE i \in 1..Len(entries) :
                         /\ entries[i][1] = k
                         /\ \A j \in (i + 1)..Len(entries) : entries[j][1] # k
    IN  [k \in {entries[i][1] : i \in 1..Len(entries)} |-> entries[LastOf(k)][2]]

-----------------------------------------------------------------------------
(* update-frontend-config.py: the synchronizer *)

\* load_env(): the variables of contracts/.env (the caller tests the file's
\* existence, for which load_env returns None)
load_env(file) == ParseEnv(file.txt)

\* 0x[a-fA-F0-9]{40}: the number of hex digits
HexLen == 40

IsHex(c) == c \in {"0", "1", "2", "3", "4", "5", "6", "7", "8", "9",
                   "a", "b", "c", "d", "e", "f", "A", "B", "C", "D", "E", "F"}

\* whether 0x[a-fA-F0-9]{40} matches in t at position i
AddrAt(t, i) ==
    /\ i + HexLen + 1 <= Len(t)
    /\ t[i] = "0"
    /\ t[i + 1] = "x"
    /\ \A k \in 2..(HexLen + 1) : IsHex(t[i + k])

\* \s of a regular expression
IsReSpace(c) == c \in {" ", "\t", "\n", "\r"}

\* the first position at or after i that holds no white space (\s* is greedy
\* and what follows it in these patterns starts with a letter)
RECURSIVE SkipSpace(_, _)
SkipSpace(t, i) == IF i <= Len(t) /\ IsReSpace(t[i]) THEN SkipSpace(t, i + 1) ELSE i

\* Where a match of   pre 0x[a-fA-F0-9]{40} mid \s* post   that starts at i
\* ends (the position after it); 0 when there is no match at i.  A pattern
\* that ends with mid (post is empty) holds no \s*.
MatchEnd(t, i, pre, mid, post) ==
    LET a == i + Len(pre)
        m == a + HexLen + 2
        p == IF post = <<>> THEN m + Len(mid) ELSE SkipSpace(t, m + Len(mid))
    IN  IF /\ m + Len(mid) - 1 <= Len(t)
           /\ SubSeq(t, i, a - 1) = pre
           /\ AddrAt(t, a)
           /\ SubSeq(t, m, m + Len(mid) - 1) = mid
           /\ p + Len(post) - 1 <= Len(t)
           /\ SubSeq(t, p, p + Len(post) - 1) = post
        THEN p + Len(post)
        ELSE 0

\* re.sub(pattern, repl, t) for the pattern above, from position from on:
\* every match, left to right, is replaced by repl.  repl is taken as it is:
\* the values of the model hold no backslash, the one character re.sub gives a
\* meaning to in a replacement.
RECURSIVE ReSub(_, _, _, _, _, _)
ReSub(t, from, pre, mid, post, repl) ==
    LET at == {i \in from..Len(t) : t[i] = pre[1] /\ MatchEnd(t, i, pre, mid, post) > 0}
    IN  IF at = {} THEN SubSeq(t, from, Len(t))
        ELSE LET i == MinOf(at)
             IN  SubSeq(t, from, i - 1) \o repl
                   \o ReSub(t, MatchEnd(t, i, pre, mid, post), pre, mid, post, repl)

\* re.sub(r"NAME: '0x[a-fA-F0-9]{40}'", f"NAME: '{value}'", content)
SubConstant(t, name, value) ==
    ReSub(t, 1, name \o <<":"," ","'">>, <<"'">>, <<>>, name \o <<":"," ","'">> \o value \o <<"'">>)

\* re.sub(r"address: '0x[a-fA-F0-9]{40}',\s*symbol: 'SYM'",
\*        f"address: '{value}', symbol: 'SYM'", content)
SubTokenAddress(t, sym, value) ==
    ReSub(t, 1, <<"a","d","d","r","e","s","s",":"," ","'">>, <<"'",",">>, <<"s","y","m","b","o","l",":"," ","'">> \o sym \o <<"'">>,
          <<"a","d","d","r","e","s","s",":"," ","'">> \o value \o <<"'",","," ","s","y","m","b","o","l",":"," ","'">> \o sym \o <<"'">>)

RegistryStart == <<"/","/"," ","M","a","i","n"," ","t","o","k","e","n"," ","r","e","g","i","s","t","r","y">>

RegistryEnd == <<"\n","}",";">>

\* re.sub(r'// Main token registry.*?\n};', section, t, flags=re.DOTALL) from
\* position from on: each stretch from the marker to the first "\n};" after it
SubRegistry(t, section) ==
    LET RECURSIVE Go(_)
        Go(from) ==
            LET s == FindFrom(t, RegistryStart, from)
                e == IF s = 0 THEN 0 ELSE FindFrom(t, RegistryEnd, s + Len(RegistryStart))
            IN  IF s = 0 \/ e = 0 THEN SubSeq(t, from, Len(t))
                ELSE SubSeq(t, from, s - 1) \o section \o Go(e + Len(RegistryEnd))
    IN  Go(1)

AbiMarker == <<"/","/"," ","P","r","i","c","e"," ","O","r","a","c","l","e"," ","A","B","I">>

\* re.sub(r'^.*?(?=// Price Oracle ABI)', section, t, flags=re.DOTALL): what
\* stands before the first marker is replaced.  With the marker at the very
\* start the empty match there is replaced and then, still at the start, the
\* stretch up to a second marker.
SubUntilAbi(t, section) ==
    LET p == FindFrom(t, AbiMarker, 1)
        q == FindFrom(t, AbiMarker, 2)
    IN  IF p = 0 THEN t
        ELSE IF p > 1 THEN section \o SubSeq(t, p, Len(t))
        ELSE IF q = 0 THEN section \o t
        ELSE section \o section \o SubSeq(t, q, Len(t))

env_content(existing_env) ==
    <<  <<"#"," ","S","i","m","p","l","e","D","e","x"," ","F","r","o","n","t","e","n","d"," ","E","n","v","i","r","o","n","m","e","n","t"," ","C","o","n","f","i","g","u","r","a","t","i","o","n">>,
        <<"#"," ","A","u","t","o","-","u","p","d","a","t","e","d"," ","b","y"," ","u","p","d","a","t","e","-","f","r","o","n","t","e","n","d","-","c","o","n","f","i","g",".","p","y">>,
        <<"#"," ","Y","o","u"," ","c","a","n"," ","m","a","n","u","a","l","l","y"," ","e","d","i","t"," ","t","h","i","s"," ","f","i","l","e"," ","-"," ","o","n","l","y"," ","d","e","p","l","o","y","e","d"," ","a","d","d","r","e","s","s","e","s"," ","w","i","l","l"," ","b","e"," ","a","u","t","o","-","u","p","d","a","t","e","d">>,
        <<>>,
        <<"#"," ","=","=","=","=","=","=","=","=","=","=","=","=","=","=","=","=","=","=","=","=","=","=","=","=","=","=","=","=","=","=","=","=","=","=","=">>,
        <<"#"," ","N","e","t","w","o","r","k"," ","S","e","l","e","c","t","i","o","n">>,
        <<"#"," ","=","=","=","=","=","=","=","=","=","=","=","=","=","=","=","=","=","=","=","=","=","=","=","=","=","=","=","=","=","=","=","=","=","=","=">>,
        <<"N","E","X","T","_","P","U","B","L","I","C","_","D","E","F","A","U","L","T","_","C","H","A","I","N","_","I","D","=">> \o DictGet(existing_env, <<"N","E","X","T","_","P","U","B","L","I","C","_","D","E","F","A","U","L","T","_","C","H","A","I","N","_","I","D">>, <<"3","1","3","3","7">>),
        <<>>,
        <<"#"," ","=","=","=","=","=","=","=","=","=","=","=","=","=","=","=","=","=","=","=","=","=","=","=","=","=","=","=","=","=","=","=","=","=","=","=">>,
        <<"#"," ","A","n","v","i","l"," ","(","L","o","c","a","l"," ","D","e","v","e","l","o","p","m","e","n","t",")"," ","-"," ","C","h","a","i","n"," ","I","D"," ","3","1","3","3","7">>,
        <<"#"," ","=","=","=","=","=","=","=","=","=","=","=","=","=","=","=","=","=","=","=","=","=","=","=","=","=","=","=","=","=","=","=","=","=","=","=">>,
        <<"N","E","X","T","_","P","U","B","L","I","C","_","A","N","V","I","L","_","R","P","C","_","U","R","L","=">> \o DictGet(existing_env, <<"N","E","X","T","_","P","U","B","L","I","C","_","A","N","V","I","L","_","R","P","C","_","U","R","L">>, <<"h","t","t","p",":","/","/","1","2","7",".","0",".","0",".","1",":","8","5","4","5">>),
        <<>>,
        <<"#"," ","A","n","v","i","l"," ","c","o","n","t","r","a","c","t"," ","a","d","d","r","e","s","s","e","s"," ","(","a","u","t","o","-","p","o","p","u","l","a","t","e","d"," ","b","y"," ","s","t","a","r","t","u","p",".","s","h",")">>,
        <<"N","E","X","T","_","P","U","B","L","I","C","_","F","A","C","T","O","R","Y","_","A","D","D","R","E","S","S","=">> \o DictGet(existing_env, <<"N","E","X","T","_","P","U","B","L","I","C","_","F","A","C","T","O","R","Y","_","A","D","D","R","E","S","S">>, <<>>),
        <<"N","E","X","T","_","P","U","B","L","I","C","_","R","O","U","T","E","R","_","A","D","D","R","E","S","S","=">> \o DictGet(existing_env, <<"N","E","X","T","_","P","U","B","L","I","C","_","R","O","U","T","E","R","_","A","D","D","R","E","S","S">>, <<>>),
        <<"N","E","X","T","_","P","U","B","L","I","C","_","P","R","I","C","E","_","O","R","A","C","L","E","_","A","D","D","R","E","S","S","=">> \o DictGet(existing_env, <<"N","E","X","T","_","P","U","B","L","I","C","_","P","R","I","C","E","_","O","R","A","C","L","E","_","A","D","D","R","E","S","S">>, <<>>),
        <<"N","E","X","T","_","P","U","B","L","I","C","_","F","A","U","C","E","T","_","A","D","D","R","E","S","S","=">> \o DictGet(existing_env, <<"N","E","X","T","_","P","U","B","L","I","C","_","F","A","U","C","E","T","_","A","D","D","R","E","S","S">>, <<>>),
        <<>>,
        <<"#"," ","A","n","v","i","l"," ","t","o","k","e","n"," ","a","d","d","r","e","s","s","e","s">>,
        <<"N","E","X","T","_","P","U","B","L","I","C","_","U","S","D","C","_","A","D","D","R","E","S","S","=">> \o DictGet(existing_env, <<"N","E","X","T","_","P","U","B","L","I","C","_","U","S","D","C","_","A","D","D","R","E","S","S">>, <<>>),
        <<"N","E","X","T","_","P","U","B","L","I","C","_","U","S","D","T","_","A","D","D","R","E","S","S","=">> \o DictGet(existing_env, <<"N","E","X","T","_","P","U","B","L","I","C","_","U","S","D","T","_","A","D","D","R","E","S","S">>, <<>>),
        <<"N","E","X","T","_","P","U","B","L","I","C","_","D","A","I","_","A","D","D","R","E","S","S","=">> \o DictGet(existing_env, <<"N","E","X","T","_","P","U","B","L","I","C","_","D","A","I","_","A","D","D","R","E","S","S">>, <<>>),
        <<"N","E","X","T","_","P","U","B","L","I","C","_","W","E","T","H","_","A","D","D","R","E","S","S","=">> \o DictGet(existing_env, <<"N","E","X","T","_","P","U","B","L","I","C","_","W","E","T","H","_","A","D","D","R","E","S","S">>, <<>>),
        <<"N","E","X","T","_","P","U","B","L","I","C","_","W","B","T","C","_","A","D","D","R","E","S","S","=">> \o DictGet(existing_env, <<"N","E","X","T","_","P","U","B","L","I","C","_","W","B","T","C","_","A","D","D","R","E","S","S">>, <<>>),
        <<"N","E","X","T","_","P","U","B","L","I","C","_","L","I","N","K","_","A","D","D","R","E","S","S","=">> \o DictGet(existing_env, <<"N","E","X","T","_","P","U","B","L","I","C","_","L","I","N","K","_","A","D","D","R","E","S","S">>, <<>>),
        <<"N","E","X","T","_","P","U","B","L","I","C","_","U","N","I","_","A","D","D","R","E","S","S","=">> \o DictGet(existing_env, <<"N","E","X","T","_","P","U","B","L","I","C","_","U","N","I","_","A","D","D","R","E","S","S">>, <<>>),
        <<>>,
        <<"#"," ","=","=","=","=","=","=","=","=","=","=","=","=","=","=","=","=","=","=","=","=","=","=","=","=","=","=","=","=","=","=","=","=","=","=","=">>,
        <<"#"," ","S","e","p","o","l","i","a"," ","T","e","s","t","n","e","t"," ","-"," ","C","h","a","i","n"," ","I","D"," ","1","1","1","5","5","1","1","1">>,
        <<"#"," ","=","=","=","=","=","=","=","=","=","=","=","=","=","=","=","=","=","=","=","=","=","=","=","=","=","=","=","=","=","=","=","=","=","=","=">>,
        <<"N","E","X","T","_","P","U","B","L","I","C","_","S","E","P","O","L","I","A","_","R","P","C","_","U","R","L","=">> \o DictGet(existing_env, <<"N","E","X","T","_","P","U","B","L","I","C","_","S","E","P","O","L","I","A","_","R","P","C","_","U","R","L">>, <<>>),
        <<>>,
        <<"#"," ","S","e","p","o","l","i","a"," ","c","o","n","t","r","a","c","t"," ","a","d","d","r","e","s","s","e","s"," ","(","a","u","t","o","-","p","o","p","u","l","a","t","e","d"," ","b","y"," ","s","t","a","r","t","u","p","-","s","e","p","o","l","i","a",".","s","h",")">>,
        <<"N","E","X","T","_","P","U","B","L","I","C","_","S","E","P","O","L","I","A","_","F","A","C","T","O","R","Y","_","A","D","D","R","E","S","S","=">> \o DictGet(existing_env, <<"N","E","X","T","_","P","U","B","L","I","C","_","S","E","P","O","L","I","A","_","F","A","C","T","O","R","Y","_","A","D","D","R","E","S","S">>, <<>>),
        <<"N","E","X","T","_","P","U","B","L","I","C","_","S","E","P","O","L","I","A","_","R","O","U","T","E","R","_","A","D","D","R","E","S","S","=">> \o DictGet(existing_env, <<"N","E","X","T","_","P","U","B","L","I","C","_","S","E","P","O","L","I","A","_","R","O","U","T","E","R","_","A","D","D","R","E","S","S">>, <<>>),
        <<"N","E","X","T","_","P","U","B","L","I","C","_","S","E","P","O","L","I","A","_","P","R","I","C","E","_","O","R","A","C","L","E","_","A","D","D","R","E","S","S","=">> \o DictGet(existing_env, <<"N","E","X","T","_","P","U","B","L","I","C","_","S","E","P","O","L","I","A","_","P","R","I","C","E","_","O","R","A","C","L","E","_","A","D","D","R","E","S","S">>, <<>>),
        <<"N","E","X","T","_","P","U","B","L","I","C","_","S","E","P","O","L","I","A","_","F","A","U","C","E","T","_","A","D","D","R","E","S","S","=">> \o DictGet(existing_env, <<"N","E","X","T","_","P","U","B","L","I","C","_","S","E","P","O","L","I","A","_","F","A","U","C","E","T","_","A","D","D","R","E","S","S">>, <<>>),
        <<>>,
        <<"#"," ","S","e","p","o","l","i","a"," ","t","o","k","e","n"," ","a","d","d","r","e","s","s","e","s">>,
        <<"N","E","X","T","_","P","U","B","L","I","C","_","S","E","P","O","L","I","A","_","U","S","D","C","_","A","D","D","R","E","S","S","=">> \o DictGet(existing_env, <<"N","E","X","T","_","P","U","B","L","I","C","_","S","E","P","O","L","I","A","_","U","S","D","C","_","A","D","D","R","E","S","S">>, <<>>),
        <<"N","E","X","T","_","P","U","B","L","I","C","_","S","E","P","O","L","I","A","_","U","S","D","T","_","A","D","D","R","E","S","S","=">> \o DictGet(existing_env, <<"N","E","X","T","_","P","U","B","L","I","C","_","S","E","P","O","L","I","A","_","U","S","D","T","_","A","D","D","R","E","S","S">>, <<>>),
        <<"N","E","X","T","_","P","U","B","L","I","C","_","S","E","P","O","L","I","A","_","D","A","I","_","A","D","D","R","E","S","S","=">> \o DictGet(existing_env, <<"N","E","X","T","_","P","U","B","L","I","C","_","S","E","P","O","L","I","A","_","D","A","I","_","A","D","D","R","E","S","S">>, <<>>),
        <<"N","E","X","T","_","P","U","B","L","I","C","_","S","E","P","O","L","I","A","_","W","E","T","H","_","A","D","D","R","E","S","S","=">> \o DictGet(existing_env, <<"N","E","X","T","_","P","U","B","L","I","C","_","S","E","P","O","L","I","A","_","W","E","T","H","_","A","D","D","R","E","S","S">>, <<>>),
        <<"N","E","X","T","_","P","U","B","L","I","C","_","S","E","P","O","L","I","A","_","W","B","T","C","_","A","D","D","R","E","S","S","=">> \o DictGet(existing_env, <<"N","E","X","T","_","P","U","B","L","I","C","_","S","E","P","O","L","I","A","_","W","B","T","C","_","A","D","D","R","E","S","S">>, <<>>),
        <<"N","E","X","T","_","P","U","B","L","I","C","_","S","E","P","O","L","I","A","_","L","I","N","K","_","A","D","D","R","E","S","S","=">> \o DictGet(existing_env, <<"N","E","X","T","_","P","U","B","L","I","C","_","S","E","P","O","L","I","A","_","L","I","N","K","_","A","D","D","R","E","S","S">>, <<>>),
        <<"N","E","X","T","_","P","U","B","L","I","C","_","S","E","P","O","L","I","A","_","U","N","I","_","A","D","D","R","E","S","S","=">> \o DictGet(existing_env, <<"N","E","X","T","_","P","U","B","L","I","C","_","S","E","P","O","L","I","A","_","U","N","I","_","A","D","D","R","E","S","S">>, <<>>)  >>

tokens_section(env_vars) ==
       <<"/","/"," ","M","a","i","n"," ","t","o","k","e","n"," ","r","e","g","i","s","t","r","y"," ","-"," ","U","p","d","a","t","e","d"," ","w","i","t","h"," ","l","a","t","e","s","t"," ","A","n","v","i","l"," ","d","e","p","l","o","y","m","e","n","t","\n","e","x","p","o","r","t"," ","c","o","n","s","t"," ","T","O","K","E","N","S",":"," ","R","e","c","o","r","d","<","s","t","r","i","n","g",","," ","T","o","k","e","n",">"," ","="," ","{","\n"," "," ","m","U","S","D","C",":"," ","{","\n"," "," "," "," ","a","d","d","r","e","s","s",":"," ","'">>
    \o DictGet(env_vars, <<"U","S","D","C","_","A","D","D","R","E","S","S">>, <<>>)
    \o <<"'",",","\n"," "," "," "," ","s","y","m","b","o","l",":"," ","'","m","U","S","D","C","'",",","\n"," "," "," "," ","n","a","m","e",":"," ","'","M","o","c","k"," ","U","S","D"," ","C","o","i","n","'",",","\n"," "," "," "," ","d","e","c","i","m","a","l","s",":"," ","1","8",",","\n"," "," "," "," ","i","s","S","t","a","b","l","e","c","o","i","n",":"," ","t","r","u","e",",","\n"," "," "," "," ","l","o","g","o","U","R","I",":"," ","'","/","U","S","D","C",".","p","n","g","'",",","\n"," "," ","}",",","\n"," "," ","m","U","S","D","T",":"," ","{","\n"," "," "," "," ","a","d","d","r","e","s","s",":"," ","'">>
    \o DictGet(env_vars, <<"U","S","D","T","_","A","D","D","R","E","S","S">>, <<>>)
    \o <<"'",",","\n"," "," "," "," ","s","y","m","b","o","l",":"," ","'","m","U","S","D","T","'",",","\n"," "," "," "," ","n","a","m","e",":"," ","'","M","o","c","k"," ","T","e","t","h","e","r"," ","U","S","D","'",",","\n"," "," "," "," ","d","e","c","i","m","a","l","s",":"," ","1","8",",","\n"," "," "," "," ","i","s","S","t","a","b","l","e","c","o","i","n",":"," ","t","r","u","e",",","\n"," "," "," "," ","l","o","g","o","U","R","I",":"," ","'","/","U","S","D","T",".","p","n","g","'",",","\n"," "," ","}",",","\n"," "," ","m","D","A","I",":"," ","{","\n"," "," "," "," ","a","d","d","r","e","s","s",":"," ","'">>
    \o DictGet(env_vars, <<"D","A","I","_","A","D","D","R","E","S","S">>, <<>>)
    \o <<"'",",","\n"," "," "," "," ","s","y","m","b","o","l",":"," ","'","m","D","A","I","'",",","\n"," "," "," "," ","n","a","m","e",":"," ","'","M","o","c","k"," ","D","a","i"," ","S","t","a","b","l","e","c","o","i","n","'",",","\n"," "," "," "," ","d","e","c","i","m","a","l","s",":"," ","1","8",",","\n"," "," "," "," ","i","s","S","t","a","b","l","e","c","o","i","n",":"," ","t","r","u","e",",","\n"," "," "," "," ","l","o","g","o","U","R","I",":"," ","'","/","D","A","I",".","p","n","g","'",",","\n"," "," ","}",",","\n"," "," ","m","W","E","T","H",":"," ","{","\n"," "," "," "," ","a","d","d","r","e","s","s",":"," ","'">>
    \o DictGet(env_vars, <<"W","E","T","H","_","A","D","D","R","E","S","S">>, <<>>)
    \o <<"'",",","\n"," "," "," "," ","s","y","m","b","o","l",":"," ","'","m","W","E","T","H","'",",","\n"," "," "," "," ","n","a","m","e",":"," ","'","M","o","c","k"," ","W","r","a","p","p","e","d"," ","E","t","h","e","r","'",",","\n"," "," "," "," ","d","e","c","i","m","a","l","s",":"," ","1","8",",","\n"," "," "," "," ","l","o","g","o","U","R","I",":"," ","'","/","W","E","T","H",".","p","n","g","'",",","\n"," "," ","}",",","\n"," "," ","m","W","B","T","C",":"," ","{","\n"," "," "," "," ","a","d","d","r","e","s","s",":"," ","'">>
    \o DictGet(env_vars, <<"W","B","T","C","_","A","D","D","R","E","S","S">>, <<>>)
    \o <<"'",",","\n"," "," "," "," ","s","y","m","b","o","l",":"," ","'","m","W","B","T","C","'",",","\n"," "," "," "," ","n","a","m","e",":"," ","'","M","o","c","k"," ","W","r","a","p","p","e","d"," ","B","i","t","c","o","i","n","'",",","\n"," "," "," "," ","d","e","c","i","m","a","l","s",":"," ","1","8",",","\n"," "," "," "," ","l","o","g","o","U","R","I",":"," ","'","/","b","i","t","c","o","i","n",".","p","n","g","'",",","\n"," "," ","}",",","\n"," "," ","m","L","I","N","K",":"," ","{","\n"," "," "," "," ","a","d","d","r","e","s","s",":"," ","'">>
    \o DictGet(env_vars, <<"L","I","N","K","_","A","D","D","R","E","S","S">>, <<>>)
    \o <<"'",",","\n"," "," "," "," ","s","y","m","b","o","l",":"," ","'","m","L","I","N","K","'",",","\n"," "," "," "," ","n","a","m","e",":"," ","'","M","o","c","k"," ","C","h","a","i","n","l","i","n","k","'",",","\n"," "," "," "," ","d","e","c","i","m","a","l","s",":"," ","1","8",",","\n"," "," "," "," ","l","o","g","o","U","R","I",":"," ","'","/","L","I","N","K",".","p","n","g","'",",","\n"," "," ","}",",","\n"," "," ","m","U","N","I",":"," ","{","\n"," "," "," "," ","a","d","d","r","e","s","s",":"," ","'">>
    \o DictGet(env_vars, <<"U","N","I","_","A","D","D","R","E","S","S">>, <<>>)
    \o <<"'",",","\n"," "," "," "," ","s","y","m","b","o","l",":"," ","'","m","U","N","I","'",",","\n"," "," "," "," ","n","a","m","e",":"," ","'","M","o","c","k"," ","U","n","i","s","w","a","p","'",",","\n"," "," "," "," ","d","e","c","i","m","a","l","s",":"," ","1","8",",","\n"," "," "," "," ","l","o","g","o","U","R","I",":"," ","'","/","U","N","I",".","p","n","g","'",",","\n"," "," ","}",",","\n","}",";">>

config_section(env_vars) ==
       <<"/","/"," ","P","r","i","c","e"," ","O","r","a","c","l","e"," ","C","o","n","f","i","g","u","r","a","t","i","o","n","\n","\n","e","x","p","o","r","t"," ","c","o","n","s","t"," ","P","R","I","C","E","_","O","R","A","C","L","E","_","A","D","D","R","E","S","S"," ","="," ","'">>
    \o DictGet(env_vars, <<"P","R","I","C","E","_","O","R","A","C","L","E","_","A","D","D","R","E","S","S">>, <<>>)
    \o <<"'",";","\n","\n","/","/"," ","I","n","d","i","v","i","d","u","a","l"," ","a","g","g","r","e","g","a","t","o","r"," ","a","d","d","r","e","s","s","e","s"," ","(","f","o","r"," ","d","i","r","e","c","t"," ","q","u","e","r","i","e","s"," ","i","f"," ","n","e","e","d","e","d",")","\n","e","x","p","o","r","t"," ","c","o","n","s","t"," ","A","G","G","R","E","G","A","T","O","R","S"," ","="," ","{","\n"," "," ","m","W","E","T","H",":"," ","'">>
    \o DictGet(env_vars, <<"E","T","H","_","U","S","D","_","A","G","G","R","E","G","A","T","O","R">>, <<>>)
    \o <<"'",",","\n"," "," ","m","W","B","T","C",":"," ","'">>
    \o DictGet(env_vars, <<"B","T","C","_","U","S","D","_","A","G","G","R","E","G","A","T","O","R">>, <<>>)
    \o <<"'",",","\n"," "," ","m","L","I","N","K",":"," ","'">>
    \o DictGet(env_vars, <<"L","I","N","K","_","U","S","D","_","A","G","G","R","E","G","A","T","O","R">>, <<>>)
    \o <<"'",",","\n"," "," ","m","U","N","I",":"," ","'">>
    \o DictGet(env_vars, <<"U","N","I","_","U","S","D","_","A","G","G","R","E","G","A","T","O","R">>, <<>>)
    \o <<"'",",","\n"," "," ","m","U","S","D","C",":"," ","'">>
    \o DictGet(env_vars, <<"U","S","D","C","_","U","S","D","_","A","G","G","R","E","G","A","T","O","R">>, <<>>)
    \o <<"'",",","\n"," "," ","m","U","S","D","T",":"," ","'">>
    \o DictGet(env_vars, <<"U","S","D","T","_","U","S","D","_","A","G","G","R","E","G","A","T","O","R">>, <<>>)
    \o <<"'",",","\n"," "," ","m","D","A","I",":"," ","'">>
    \o DictGet(env_vars, <<"D","A","I","_","U","S","D","_","A","G","G","R","E","G","A","T","O","R">>, <<>>)
    \o <<"'",",","\n","}",";","\n","\n">>

\* A faulty update_tokens_config: no test whether the file exists, so that a
\* missing tokens.ts is written.
update_tokens_config_create(env_vars, file) ==
    File(SubRegistry(file.txt, tokens_section(env_vars)))

\* update_tokens_config: src/app/config/tokens.ts, skipped when it is missing
update_tokens_config(env_vars, file) ==
    IF ~file.ex THEN file
    ELSE File(SubRegistry(file.txt, tokens_section(env_vars)))

\* update_pricefeeds_config: src/app/config/priceFeeds.ts
update_pricefeeds_config(env_vars, file) ==
    IF ~file.ex THEN file
    ELSE File(SubUntilAbi(file.txt, config_section(env_vars)))

\* update_page_config: src/app/page.tsx
update_page_config(env_vars, file) ==
    IF ~file.ex THEN file
    ELSE LET c1 == SubConstant(file.txt, <<"R","O","U","T","E","R">>, DictGet(env_vars, <<"R","O","U","T","E","R","_","A","D","D","R","E","S","S">>, <<>>))
             c2 == SubConstant(c1, <<"F","A","C","T","O","R","Y">>, DictGet(env_vars, <<"F","A","C","T","O","R","Y","_","A","D","D","R","E","S","S">>, <<>>))
             c3 == SubConstant(c2, <<"T","O","K","E","N","_","A">>, DictGet(env_vars, <<"T","O","K","E","N","_","A","_","A","D","D","R","E","S","S">>, <<>>))
             c4 == SubConstant(c3, <<"T","O","K","E","N","_","B">>, DictGet(env_vars, <<"T","O","K","E","N","_","B","_","A","D","D","R","E","S","S">>, <<>>))
         IN  File(c4)

\* the replacements list of update_deprecated_config: symbol, variable
replacements ==
    <<  <<<<"T","K","A">>, <<"T","O","K","E","N","_","A","_","A","D","D","R","E","S","S">>>>,
        <<<<"T","K","B">>, <<"T","O","K","E","N","_","B","_","A","D","D","R","E","S","S">>>>,
        <<<<"U","S","D","C">>, <<"U","S","D","C","_","A","D","D","R","E","S","S">>>>,
        <<<<"U","S","D","T">>, <<"U","S","D","T","_","A","D","D","R","E","S","S">>>>,
        <<<<"D","A","I">>, <<"D","A","I","_","A","D","D","R","E","S","S">>>>,
        <<<<"W","E","T","H">>, <<"W","E","T","H","_","A","D","D","R","E","S","S">>>>,
        <<<<"W","B","T","C">>, <<"W","B","T","C","_","A","D","D","R","E","S","S">>>>,
        <<<<"L","I","N","K">>, <<"L","I","N","K","_","A","D","D","R","E","S","S">>>>,
        <<<<"U","N","I">>, <<"U","N","I","_","A","D","D","R","E","S","S">>>>  >>

RECURSIVE ApplyReplacements(_, _, _)
ApplyReplacements(t, env_vars, list) ==
    IF list = <<>> THEN t
    ELSE ApplyReplacements(
             SubTokenAddress(t, Head(list)[1], DictGet(env_vars, Head(list)[2], <<>>)),
             env_vars, Tail(list))

\* update_deprecated_config: src/config/tokens.ts
update_deprecated_config(env_vars, file) ==
    IF ~file.ex THEN file
    ELSE LET c0 == ApplyReplacements(file.txt, env_vars, replacements)
             c1 == SubConstant(c0, <<"R","O","U","T","E","R">>, DictGet(env_vars, <<"R","O","U","T","E","R","_","A","D","D","R","E","S","S">>, <<>>))
             c2 == SubConstant(c1, <<"F","A","C","T","O","R","Y">>, DictGet(env_vars, <<"F","A","C","T","O","R","Y","_","A","D","D","R","E","S","S">>, <<>>))
         IN  File(c2)

\* what update_env_local copies for Sepolia: key of .env.local, variable of .env
SepoliaKeys ==
    <<  <<<<"N","E","X","T","_","P","U","B","L","I","C","_","S","E","P","O","L","I","A","_","F","A","C","T","O","R","Y","_","A","D","D","R","E","S","S">>, <<"F","A","C","T","O","R","Y","_","A","D","D","R","E","S","S">>>>,
        <<<<"N","E","X","T","_","P","U","B","L","I","C","_","S","E","P","O","L","I","A","_","R","O","U","T","E","R","_","A","D","D","R","E","S","S">>, <<"R","O","U","T","E","R","_","A","D","D","R","E","S","S">>>>,
        <<<<"N","E","X","T","_","P","U","B","L","I","C","_","S","E","P","O","L","I","A","_","P","R","I","C","E","_","O","R","A","C","L","E","_","A","D","D","R","E","S","S">>, <<"P","R","I","C","E","_","O","R","A","C","L","E","_","A","D","D","R","E","S","S">>>>,
        <<<<"N","E","X","T","_","P","U","B","L","I","C","_","S","E","P","O","L","I","A","_","F","A","U","C","E","T","_","A","D","D","R","E","S","S">>, <<"F","A","U","C","E","T","_","A","D","D","R","E","S","S">>>>,
        <<<<"N","E","X","T","_","P","U","B","L","I","C","_","S","E","P","O","L","I","A","_","U","S","D","C","_","A","D","D","R","E","S","S">>, <<"U","S","D","C","_","A","D","D","R","E","S","S">>>>,
        <<<<"N","E","X","T","_","P","U","B","L","I","C","_","S","E","P","O","L","I","A","_","U","S","D","T","_","A","D","D","R","E","S","S">>, <<"U","S","D","T","_","A","D","D","R","E","S","S">>>>,
        <<<<"N","E","X","T","_","P","U","B","L","I","C","_","S","E","P","O","L","I","A","_","D","A","I","_","A","D","D","R","E","S","S">>, <<"D","A","I","_","A","D","D","R","E","S","S">>>>,
        <<<<"N","E","X","T","_","P","U","B","L","I","C","_","S","E","P","O","L","I","A","_","W","E","T","H","_","A","D","D","R","E","S","S">>, <<"W","E","T","H","_","A","D","D","R","E","S","S">>>>,
        <<<<"N","E","X","T","_","P","U","B","L","I","C","_","S","E","P","O","L","I","A","_","W","B","T","C","_","A","D","D","R","E","S","S">>, <<"W","B","T","C","_","A","D","D","R","E","S","S">>>>,
        <<<<"N","E","X","T","_","P","U","B","L","I","C","_","S","E","P","O","L","I","A","_","L","I","N","K","_","A","D","D","R","E","S","S">>, <<"L","I","N","K","_","A","D","D","R","E","S","S">>>>,
        <<<<"N","E","X","T","_","P","U","B","L","I","C","_","S","E","P","O","L","I","A","_","U","N","I","_","A","D","D","R","E","S","S">>, <<"U","N","I","_","A","D","D","R","E","S","S">>>>  >>

\* and for Anvil
AnvilKeys ==
    <<  <<<<"N","E","X","T","_","P","U","B","L","I","C","_","F","A","C","T","O","R","Y","_","A","D","D","R","E","S","S">>, <<"F","A","C","T","O","R","Y","_","A","D","D","R","E","S","S">>>>,
        <<<<"N","E","X","T","_","P","U","B","L","I","C","_","R","O","U","T","E","R","_","A","D","D","R","E","S","S">>, <<"R","O","U","T","E","R","_","A","D","D","R","E","S","S">>>>,
        <<<<"N","E","X","T","_","P","U","B","L","I","C","_","P","R","I","C","E","_","O","R","A","C","L","E","_","A","D","D","R","E","S","S">>, <<"P","R","I","C","E","_","O","R","A","C","L","E","_","A","D","D","R","E","S","S">>>>,
        <<<<"N","E","X","T","_","P","U","B","L","I","C","_","F","A","U","C","E","T","_","A","D","D","R","E","S","S">>, <<"F","A","U","C","E","T","_","A","D","D","R","E","S","S">>>>,
        <<<<"N","E","X","T","_","P","U","B","L","I","C","_","U","S","D","C","_","A","D","D","R","E","S","S">>, <<"U","S","D","C","_","A","D","D","R","E","S","S">>>>,
        <<<<"N","E","X","T","_","P","U","B","L","I","C","_","U","S","D","T","_","A","D","D","R","E","S","S">>, <<"U","S","D","T","_","A","D","D","R","E","S","S">>>>,
        <<<<"N","E","X","T","_","P","U","B","L","I","C","_","D","A","I","_","A","D","D","R","E","S","S">>, <<"D","A","I","_","A","D","D","R","E","S","S">>>>,
        <<<<"N","E","X","T","_","P","U","B","L","I","C","_","W","E","T","H","_","A","D","D","R","E","S","S">>, <<"W","E","T","H","_","A","D","D","R","E","S","S">>>>,
        <<<<"N","E","X","T","_","P","U","B","L","I","C","_","W","B","T","C","_","A","D","D","R","E","S","S">>, <<"W","B","T","C","_","A","D","D","R","E","S","S">>>>,
        <<<<"N","E","X","T","_","P","U","B","L","I","C","_","L","I","N","K","_","A","D","D","R","E","S","S">>, <<"L","I","N","K","_","A","D","D","R","E","S","S">>>>,
        <<<<"N","E","X","T","_","P","U","B","L","I","C","_","U","N","I","_","A","D","D","R","E","S","S">>, <<"U","N","I","_","A","D","D","R","E","S","S">>>>  >>

SepoliaRpcKey == <<"N","E","X","T","_","P","U","B","L","I","C","_","S","E","P","O","L","I","A","_","R","P","C","_","U","R","L">>

AnvilRpcKey == <<"N","E","X","T","_","P","U","B","L","I","C","_","A","N","V","I","L","_","R","P","C","_","U","R","L">>

ChainIdKey == <<"N","E","X","T","_","P","U","B","L","I","C","_","D","E","F","A","U","L","T","_","C","H","A","I","N","_","I","D">>

\* existing_env[key] = env_vars.get(variable, '') for every row of the table
RECURSIVE CopyKeys(_, _, _)
CopyKeys(existing_env, env_vars, table) ==
    IF table = <<>> THEN existing_env
    ELSE CopyKeys(DictPut(existing_env, Head(table)[1],
                          DictGet(env_vars, Head(table)[2], <<>>)),
                  env_vars, Tail(table))

\* A faulty Sepolia branch: it sets the Anvil keys as well.
UpdateSepolia_all(existing_env, env_vars) ==
    CopyKeys(CopyKeys(DictPut(existing_env, AnvilRpcKey, <<"h","t","t","p",":","/","/","1","2","7",".","0",".","0",".","1",":","8","5","4","5">>),
                      env_vars, AnvilKeys),
             env_vars, SepoliaKeys)

\* the Sepolia branch of update_env_local
UpdateSepolia(existing_env, env_vars) ==
    LET e == CopyKeys(existing_env, env_vars, SepoliaKeys)
    IN  IF <<"S","E","P","O","L","I","A","_","R","P","C","_","U","R","L">> \in DOMAIN env_vars
        THEN DictPut(e, SepoliaRpcKey, env_vars[<<"S","E","P","O","L","I","A","_","R","P","C","_","U","R","L">>])
        ELSE e

\* the Anvil branch of update_env_local (every network but 'sepolia')
UpdateAnvil(existing_env, env_vars) ==
    CopyKeys(DictPut(existing_env, AnvilRpcKey, <<"h","t","t","p",":","/","/","1","2","7",".","0",".","0",".","1",":","8","5","4","5">>),
             env_vars, AnvilKeys)

\* update_env_local: .env.local is read when it exists, the selected network's
\* keys are set, and the whole file is written from the template
update_env_local(env_vars, file, network) ==
    LET existing_env == IF file.ex THEN ParseEnv(file.txt) ELSE EmptyDict
        updated == IF network = <<"s","e","p","o","l","i","a">>
                   THEN UpdateSepolia(existing_env, env_vars)
                   ELSE UpdateAnvil(existing_env, env_vars)
        chained == IF ChainIdKey \in DOMAIN updated THEN updated
                   ELSE DictPut(updated, ChainIdKey, <<"3","1","3","3","7">>)
    IN  File(env_content(chained))

-----------------------------------------------------------------------------
(* extract-pairs.py: the resolver *)

\* token_pairs of main(): pair name, the variables of its two tokens
token_pairs ==
    <<  <<<<"m","U","S","D","C","/","m","U","S","D","T">>, <<"U","S","D","C","_","A","D","D","R","E","S","S">>, <<"U","S","D","T","_","A","D","D","R","E","S","S">>>>,
        <<<<"m","U","S","D","C","/","m","D","A","I">>, <<"U","S","D","C","_","A","D","D","R","E","S","S">>, <<"D","A","I","_","A","D","D","R","E","S","S">>>>,
        <<<<"m","W","E","T","H","/","m","U","S","D","C">>, <<"W","E","T","H","_","A","D","D","R","E","S","S">>, <<"U","S","D","C","_","A","D","D","R","E","S","S">>>>,
        <<<<"m","W","E","T","H","/","m","U","S","D","T">>, <<"W","E","T","H","_","A","D","D","R","E","S","S">>, <<"U","S","D","T","_","A","D","D","R","E","S","S">>>>,
        <<<<"m","W","E","T","H","/","m","D","A","I">>, <<"W","E","T","H","_","A","D","D","R","E","S","S">>, <<"D","A","I","_","A","D","D","R","E","S","S">>>>,
        <<<<"m","W","B","T","C","/","m","U","S","D","C">>, <<"W","B","T","C","_","A","D","D","R","E","S","S">>, <<"U","S","D","C","_","A","D","D","R","E","S","S">>>>,
        <<<<"m","W","B","T","C","/","m","W","E","T","H">>, <<"W","B","T","C","_","A","D","D","R","E","S","S">>, <<"W","E","T","H","_","A","D","D","R","E","S","S">>>>,
        <<<<"m","L","I","N","K","/","m","U","S","D","C">>, <<"L","I","N","K","_","A","D","D","R","E","S","S">>, <<"U","S","D","C","_","A","D","D","R","E","S","S">>>>,
        <<<<"m","L","I","N","K","/","m","W","E","T","H">>, <<"L","I","N","K","_","A","D","D","R","E","S","S">>, <<"W","E","T","H","_","A","D","D","R","E","S","S">>>>,
        <<<<"m","U","N","I","/","m","U","S","D","C">>, <<"U","N","I","_","A","D","D","R","E","S","S">>, <<"U","S","D","C","_","A","D","D","R","E","S","S">>>>  >>

\* an address of HexLen digits c
Addr(c) == <<"0", "x">> \o [i \in 1..HexLen |-> c]

\* '0x0000000000000000000000000000000000000000'
ZeroAddress == Addr("0")

\* A faulty get_pair_addresses: the try is around the loop, so that the first
\* call that raises ends the lookups.
get_pair_addresses_break(pairs_in, lookup) ==
    LET RECURSIVE Go(_, _, _)
        Go(i, pairs, calls) ==
            IF i > Len(pairs_in) THEN [pairs |-> pairs, calls |-> calls]
            ELSE LET name == pairs_in[i][1]
                 IN  IF lookup[i].raises
                     THEN [pairs |-> pairs, calls |-> Append(calls, name)]
                     ELSE IF lookup[i].ret # ZeroAddress
                     THEN Go(i + 1, Append(pairs, <<name, lookup[i].ret>>), Append(calls, name))
                     ELSE Go(i + 1, pairs, Append(calls, name))
    IN  Go(1, <<>>, <<>>)

\* get_pair_addresses: one getPair call per pair, in the order of token_pairs.
\* lookup[i] is what the i-th call does: [raises |-> whether it raises,
\* ret |-> the address it returns otherwise].  The result is the dictionary
\* pairs, a sequence of <<name, address>> in insertion order, and the names
\* looked up.
get_pair_addresses(pairs_in, lookup) ==
    LET RECURSIVE Go(_, _, _)
        Go(i, pairs, calls) ==
            IF i > Len(pairs_in) THEN [pairs |-> pairs, calls |-> calls]
            ELSE LET name == pairs_in[i][1]
                 IN  IF ~lookup[i].raises /\ lookup[i].ret # ZeroAddress
                     THEN Go(i + 1, Append(pairs, <<name, lookup[i].ret>>), Append(calls, name))
                     ELSE Go(i + 1, pairs, Append(calls, name))
    IN  Go(1, <<>>, <<>>)

\* A faulty PairVar: upper() comes first, so that no "m" is left to remove.
PairVar_upper_first(name) == Replace(Replace(Upper(name), "/", <<"_">>), "m", <<>>)

\* name.replace('/', '_').replace('m', '').upper()
PairVar(name) == Upper(Replace(Replace(name, "/", <<"_">>), "m", <<>>))

\* f"{address}\n" lines of the pairs, each variable starting with prefix
RECURSIVE PairLines(_, _)
PairLines(prefix, pairs) ==
    IF pairs = <<>> THEN <<>>
    ELSE <<prefix \o PairVar(Head(pairs)[1]) \o <<"=">> \o Head(pairs)[2]>>
           \o PairLines(prefix, Tail(pairs))

Digit == <<"0","1","2","3","4","5","6","7","8","9">>

\* str(n) of a natural number
RECURSIVE Decimal(_)
Decimal(n) == IF n < 10 THEN <<Digit[n + 1]>> ELSE Decimal(n \div 10) \o <<Digit[(n % 10) + 1]>>

IsDigit(c) == \E k \in 1..10 : Digit[k] = c

\* int(s) of a string of digits
RECURSIVE ParseInt(_)
ParseInt(s) ==
    IF s = <<>> THEN 0
    ELSE 10 * ParseInt(SubSeq(s, 1, Len(s) - 1))
           + (CHOOSE k \in 0..9 : Digit[k + 1] = s[Len(s)])

\* whether int(s) succeeds (digits only; a sign or blanks are not modelled)
IsNumber(s) == s # <<>> /\ \A i \in 1..Len(s) : IsDigit(s[i])

SepoliaChainId == 11155111

AnvilChainId == 31337

\* "Sepolia" if chain_id == 11155111 else "Anvil"
network_name(chain_id) == IF chain_id = SepoliaChainId THEN <<"S","e","p","o","l","i","a">> ELSE <<"A","n","v","i","l">>

\* "SEPOLIA" if chain_id == 11155111 else "ANVIL"
network_prefix(chain_id) == IF chain_id = SepoliaChainId THEN <<"S","E","P","O","L","I","A">> ELSE <<"A","N","V","I","L">>

\* The loop of update_contract_env that drops the old pair section: the
\* lines kept, given whether the loop is inside the section.
RECURSIVE DropPairSection(_, _)
DropPairSection(lines, skip_section) ==
    IF lines = <<>> THEN <<>>
    ELSE LET line == Strip(Head(lines))
             skip == IF StartsWith(line, <<"#"," ","P","a","i","r"," ","A","d","d","r","e","s","s","e","s">>) THEN TRUE
                     ELSE IF skip_section /\ line # <<>> /\ ~StartsWith(line, <<"P","A","I","R","_">>)
                          THEN FALSE
                          ELSE skip_section
         IN  (IF ~skip /\ ~StartsWith(line, <<"P","A","I","R","_">>) THEN <<Head(lines)>> ELSE <<>>)
               \o DropPairSection(Tail(lines), skip)

\* update_contract_env: the lines written to contracts/.env.  The header is
\* written as "\n# Pair Addresses (...)\n": an empty line, then the header.
update_contract_env(pairs, chain_id, file) ==
    LET env_lines == IF file.ex THEN file.txt ELSE <<>>
    IN  File(DropPairSection(env_lines, FALSE)
               \o << <<>>,
                     <<"#"," ","P","a","i","r"," ","A","d","d","r","e","s","s","e","s"," ","(">> \o network_name(chain_id) \o <<" ","-"," ","C","h","a","i","n"," ","I","D"," ">>
                        \o Decimal(chain_id) \o <<")">> >>
               \o PairLines(<<"P","A","I","R","_">>, pairs))

\* update_frontend_env: the lines written to dex-frontend/.env.local
update_frontend_env(pairs, chain_id, file) ==
    LET env_lines == IF file.ex THEN file.txt ELSE <<>>
        prefix    == <<"N","E","X","T","_","P","U","B","L","I","C","_">> \o network_prefix(chain_id) \o <<"_","P","A","I","R","_">>
        new_lines == SelectSeq(env_lines, LAMBDA line : ~StartsWith(Strip(line), prefix))
    IN  File(new_lines
               \o << <<>>, <<"#"," ">> \o network_name(chain_id) \o <<" ","P","a","i","r"," ","A","d","d","r","e","s","s","e","s">> >>
               \o PairLines(prefix, pairs))

-----------------------------------------------------------------------------
(* What the scripts are run on *)

\* runs of either script and edits of contracts/.env in one behaviour
MaxSteps == 3

\* contracts/.env after a local deployment: every address, the deprecated
\* test tokens included
EnvLocalDeployment ==
    File(<< <<"#"," ","D","e","p","l","o","y","e","d"," ","c","o","n","t","r","a","c","t"," ","a","d","d","r","e","s","s","e","s">>,
            <<"F","A","C","T","O","R","Y","_","A","D","D","R","E","S","S","=","0","x","1","1","1","1","1","1","1","1","1","1","1","1","1","1","1","1","1","1","1","1","1","1","1","1","1","1","1","1","1","1","1","1","1","1","1","1","1","1","1","1">>,
            <<"R","O","U","T","E","R","_","A","D","D","R","E","S","S","=","0","x","2","2","2","2","2","2","2","2","2","2","2","2","2","2","2","2","2","2","2","2","2","2","2","2","2","2","2","2","2","2","2","2","2","2","2","2","2","2","2","2">>,
            <<"P","R","I","C","E","_","O","R","A","C","L","E","_","A","D","D","R","E","S","S","=","0","x","3","3","3","3","3","3","3","3","3","3","3","3","3","3","3","3","3","3","3","3","3","3","3","3","3","3","3","3","3","3","3","3","3","3","3","3","3","3","3","3">>,
            <<"F","A","U","C","E","T","_","A","D","D","R","E","S","S","=","0","x","4","4","4","4","4","4","4","4","4","4","4","4","4","4","4","4","4","4","4","4","4","4","4","4","4","4","4","4","4","4","4","4","4","4","4","4","4","4","4","4">>,
            <<>>,
            <<"U","S","D","C","_","A","D","D","R","E","S","S","=","0","x","5","5","5","5","5","5","5","5","5","5","5","5","5","5","5","5","5","5","5","5","5","5","5","5","5","5","5","5","5","5","5","5","5","5","5","5","5","5","5","5">>,
            <<"U","S","D","T","_","A","D","D","R","E","S","S","=","0","x","6","6","6","6","6","6","6","6","6","6","6","6","6","6","6","6","6","6","6","6","6","6","6","6","6","6","6","6","6","6","6","6","6","6","6","6","6","6","6","6">>,
            <<"D","A","I","_","A","D","D","R","E","S","S","=","0","x","7","7","7","7","7","7","7","7","7","7","7","7","7","7","7","7","7","7","7","7","7","7","7","7","7","7","7","7","7","7","7","7","7","7","7","7","7","7","7","7">>,
            <<"W","E","T","H","_","A","D","D","R","E","S","S","=","0","x","8","8","8","8","8","8","8","8","8","8","8","8","8","8","8","8","8","8","8","8","8","8","8","8","8","8","8","8","8","8","8","8","8","8","8","8","8","8","8","8">>,
            <<"W","B","T","C","_","A","D","D","R","E","S","S","=","0","x","9","9","9","9","9","9","9","9","9","9","9","9","9","9","9","9","9","9","9","9","9","9","9","9","9","9","9","9","9","9","9","9","9","9","9","9","9","9","9","9">>,
            <<"L","I","N","K","_","A","D","D","R","E","S","S","=","0","x","a","a","a","a","a","a","a","a","a","a","a","a","a","a","a","a","a","a","a","a","a","a","a","a","a","a","a","a","a","a","a","a","a","a","a","a","a","a","a","a">>,
            <<"U","N","I","_","A","D","D","R","E","S","S","=","0","x","b","b","b","b","b","b","b","b","b","b","b","b","b","b","b","b","b","b","b","b","b","b","b","b","b","b","b","b","b","b","b","b","b","b","b","b","b","b","b","b">>,
            <<"T","O","K","E","N","_","A","_","A","D","D","R","E","S","S","=","0","x","c","c","c","c","c","c","c","c","c","c","c","c","c","c","c","c","c","c","c","c","c","c","c","c","c","c","c","c","c","c","c","c","c","c","c","c","c","c","c","c">>,
            <<"T","O","K","E","N","_","B","_","A","D","D","R","E","S","S","=","0","x","d","d","d","d","d","d","d","d","d","d","d","d","d","d","d","d","d","d","d","d","d","d","d","d","d","d","d","d","d","d","d","d","d","d","d","d","d","d","d","d">>,
            <<"E","T","H","_","U","S","D","_","A","G","G","R","E","G","A","T","O","R","=","0","x","e","e","e","e","e","e","e","e","e","e","e","e","e","e","e","e","e","e","e","e","e","e","e","e","e","e","e","e","e","e","e","e","e","e","e","e","e","e","e","e">>,
            <<"R","P","C","_","U","R","L","=","h","t","t","p",":","/","/","l","o","c","a","l","h","o","s","t",":","8","5","4","5">> >>)

\* contracts/.env after a later deployment: other addresses, no deprecated
\* test tokens, no faucet, a value that is no address, blanks around a value
EnvLaterDeployment ==
    File(<< <<"F","A","C","T","O","R","Y","_","A","D","D","R","E","S","S","=","0","x","A","A","A","A","A","A","A","A","A","A","A","A","A","A","A","A","A","A","A","A","A","A","A","A","A","A","A","A","A","A","A","A","A","A","A","A","A","A","A","A">>,
            <<"R","O","U","T","E","R","_","A","D","D","R","E","S","S"," ","="," ","0","x","B","B","B","B","B","B","B","B","B","B","B","B","B","B","B","B","B","B","B","B","B","B","B","B","B","B","B","B","B","B","B","B","B","B","B","B","B","B","B","B"," ">>,
            <<"P","R","I","C","E","_","O","R","A","C","L","E","_","A","D","D","R","E","S","S","=","0","x","C","C","C","C","C","C","C","C","C","C","C","C","C","C","C","C","C","C","C","C","C","C","C","C","C","C","C","C","C","C","C","C","C","C","C","C","C","C","C","C">>,
            <<"U","S","D","C","_","A","D","D","R","E","S","S","=","0","x","D","D","D","D","D","D","D","D","D","D","D","D","D","D","D","D","D","D","D","D","D","D","D","D","D","D","D","D","D","D","D","D","D","D","D","D","D","D","D","D">>,
            <<"U","S","D","T","_","A","D","D","R","E","S","S","=","0","x","1","2","3","4">>,
            <<"W","E","T","H","_","A","D","D","R","E","S","S","=","0","x","E","E","E","E","E","E","E","E","E","E","E","E","E","E","E","E","E","E","E","E","E","E","E","E","E","E","E","E","E","E","E","E","E","E","E","E","E","E","E","E">>,
            <<"S","E","P","O","L","I","A","_","R","P","C","_","U","R","L","=","h","t","t","p","s",":","/","/","s","e","p","o","l","i","a",".","e","x","a","m","p","l","e","/","v","3","/","k","e","y","=","1">> >>)

\* contracts/.env of a deployment that did not get to the router
EnvNoRouter ==
    File(<< <<"F","A","C","T","O","R","Y","_","A","D","D","R","E","S","S","=","0","x","F","F","F","F","F","F","F","F","F","F","F","F","F","F","F","F","F","F","F","F","F","F","F","F","F","F","F","F","F","F","F","F","F","F","F","F","F","F","F","F">>,
            <<"R","O","U","T","E","R","_","A","D","D","R","E","S","S","=">>,
            <<"U","S","D","C","_","A","D","D","R","E","S","S","=","0","x","5","5","5","5","5","5","5","5","5","5","5","5","5","5","5","5","5","5","5","5","5","5","5","5","5","5","5","5","5","5","5","5","5","5","5","5","5","5","5","5">> >>)

\* contracts/.env after a resolver run, with lines added by hand below the
\* pair section the run wrote
EnvEditedAfterResolve ==
    File(<< <<"F","A","C","T","O","R","Y","_","A","D","D","R","E","S","S","=","0","x","1","1","1","1","1","1","1","1","1","1","1","1","1","1","1","1","1","1","1","1","1","1","1","1","1","1","1","1","1","1","1","1","1","1","1","1","1","1","1","1">>,
            <<"R","O","U","T","E","R","_","A","D","D","R","E","S","S","=","0","x","2","2","2","2","2","2","2","2","2","2","2","2","2","2","2","2","2","2","2","2","2","2","2","2","2","2","2","2","2","2","2","2","2","2","2","2","2","2","2","2">>,
            <<>>,
            <<"#"," ","P","a","i","r"," ","A","d","d","r","e","s","s","e","s"," ","(","A","n","v","i","l"," ","-"," ","C","h","a","i","n"," ","I","D"," ","3","1","3","3","7",")">>,
            <<"P","A","I","R","_","U","S","D","C","_","U","S","D","T","=","0","x","7","7","7","7","7","7","7","7","7","7","7","7","7","7","7","7","7","7","7","7","7","7","7","7","7","7","7","7","7","7","7","7","7","7","7","7","7","7","7","7">>,
            <<>>,
            <<"#"," ","a","d","d","e","d"," ","b","y"," ","h","a","n","d">>,
            <<"R","P","C","_","U","R","L","=","h","t","t","p",":","/","/","l","o","c","a","l","h","o","s","t",":","8","5","4","5">> >>)

\* what a deployment leaves in contracts/.env
Deployments == {EnvLocalDeployment, EnvLaterDeployment}

\* a .env.local the developer wrote by hand
ManualEnvLocal ==
    File(<< <<"#"," ","m","y"," ","s","e","t","t","i","n","g","s">>,
            <<"N","E","X","T","_","P","U","B","L","I","C","_","D","E","F","A","U","L","T","_","C","H","A","I","N","_","I","D","=","1","1","1","5","5","1","1","1">>,
            <<"N","E","X","T","_","P","U","B","L","I","C","_","A","N","V","I","L","_","R","P","C","_","U","R","L","=","h","t","t","p",":","/","/","1","0",".","0",".","0",".","5",":","8","5","4","5">>,
            <<"N","E","X","T","_","P","U","B","L","I","C","_","S","E","P","O","L","I","A","_","R","P","C","_","U","R","L","=","h","t","t","p","s",":","/","/","r","p","c",".","s","e","p","o","l","i","a",".","e","x","a","m","p","l","e">>,
            <<"N","E","X","T","_","P","U","B","L","I","C","_","S","E","P","O","L","I","A","_","F","A","C","T","O","R","Y","_","A","D","D","R","E","S","S","=","0","x","f","f","f","f","f","f","f","f","f","f","f","f","f","f","f","f","f","f","f","f","f","f","f","f","f","f","f","f","f","f","f","f","f","f","f","f","f","f","f","f">>,
            <<"N","E","X","T","_","P","U","B","L","I","C","_","W","A","L","L","E","T","C","O","N","N","E","C","T","_","I","D","=","a","b","c","1","2","3">> >>)

InitTokensTs ==
    File(<<"i","m","p","o","r","t"," ","{"," ","T","o","k","e","n"," ","}"," ","f","r","o","m"," ","'",".","/","t","y","p","e","s","'",";","\n","\n","/","/"," ","M","a","i","n"," ","t","o","k","e","n"," ","r","e","g","i","s","t","r","y","\n","e","x","p","o","r","t"," ","c","o","n","s","t"," ","T","O","K","E","N","S",":"," ","R","e","c","o","r","d","<","s","t","r","i","n","g",","," ","T","o","k","e","n",">"," ","="," ","{","\n"," "," ","m","U","S","D","C",":"," ","{","\n"," "," "," "," ","a","d","d","r","e","s","s",":"," ","'","0","x","0","0","0","0","0","0","0","0","0","0","0","0","0","0","0","0","0","0","0","0","0","0","0","0","0","0","0","0","0","0","0","0","0","0","0","0","0","0","0","0","'",",","\n"," "," ","}",",","\n","}",";","\n","\n","e","x","p","o","r","t"," ","c","o","n","s","t"," ","D","E","F","A","U","L","T","_","T","O","K","E","N"," ","="," ","'","m","U","S","D","C","'",";","\n">>)

InitPriceFeedsTs ==
    File(<<"/","/"," ","P","r","i","c","e"," ","O","r","a","c","l","e"," ","C","o","n","f","i","g","u","r","a","t","i","o","n","\n","\n","e","x","p","o","r","t"," ","c","o","n","s","t"," ","P","R","I","C","E","_","O","R","A","C","L","E","_","A","D","D","R","E","S","S"," ","="," ","'","0","x","0","0","0","0","0","0","0","0","0","0","0","0","0","0","0","0","0","0","0","0","0","0","0","0","0","0","0","0","0","0","0","0","0","0","0","0","0","0","0","0","'",";","\n","\n","/","/"," ","P","r","i","c","e"," ","O","r","a","c","l","e"," ","A","B","I","\n","e","x","p","o","r","t"," ","c","o","n","s","t"," ","P","R","I","C","E","_","O","R","A","C","L","E","_","A","B","I"," ","="," ","[","]"," ","a","s"," ","c","o","n","s","t",";","\n">>)

\* a priceFeeds.ts whose configuration part was taken out: it starts with the
\* ABI comment, and a second ABI follows under a comment of its own
AbiFirstPriceFeedsTs ==
    File(<<"/","/"," ","P","r","i","c","e"," ","O","r","a","c","l","e"," ","A","B","I","\n","e","x","p","o","r","t"," ","c","o","n","s","t"," ","P","R","I","C","E","_","O","R","A","C","L","E","_","A","B","I"," ","="," ","[","]"," ","a","s"," ","c","o","n","s","t",";","\n","\n","/","/"," ","P","r","i","c","e"," ","O","r","a","c","l","e"," ","A","B","I"," ","(","v","2",")","\n","e","x","p","o","r","t"," ","c","o","n","s","t"," ","P","R","I","C","E","_","O","R","A","C","L","E","_","A","B","I","_","V","2"," ","="," ","[","]"," ","a","s"," ","c","o","n","s","t",";","\n">>)

InitPageTsx ==
    File(<<"'","u","s","e"," ","c","l","i","e","n","t","'",";","\n","\n","c","o","n","s","t"," ","C","O","N","T","R","A","C","T","S"," ","="," ","{","\n"," "," ","R","O","U","T","E","R",":"," ","'","0","x","0","0","0","0","0","0","0","0","0","0","0","0","0","0","0","0","0","0","0","0","0","0","0","0","0","0","0","0","0","0","0","0","0","0","0","0","0","0","0","0","'",",","\n"," "," ","F","A","C","T","O","R","Y",":"," ","'","0","x","0","0","0","0","0","0","0","0","0","0","0","0","0","0","0","0","0","0","0","0","0","0","0","0","0","0","0","0","0","0","0","0","0","0","0","0","0","0","0","0","'",",","\n"," "," ","T","O","K","E","N","_","A",":"," ","'","0","x","0","0","0","0","0","0","0","0","0","0","0","0","0","0","0","0","0","0","0","0","0","0","0","0","0","0","0","0","0","0","0","0","0","0","0","0","0","0","0","0","'",",","\n"," "," ","T","O","K","E","N","_","B",":"," ","'","0","x","0","0","0","0","0","0","0","0","0","0","0","0","0","0","0","0","0","0","0","0","0","0","0","0","0","0","0","0","0","0","0","0","0","0","0","0","0","0","0","0","'",",","\n","}",";","\n">>)

InitDepTokensTs ==
    File(<<"e","x","p","o","r","t"," ","c","o","n","s","t"," ","T","O","K","E","N","S"," ","="," ","[","\n"," "," ","{"," ","a","d","d","r","e","s","s",":"," ","'","0","x","0","0","0","0","0","0","0","0","0","0","0","0","0","0","0","0","0","0","0","0","0","0","0","0","0","0","0","0","0","0","0","0","0","0","0","0","0","0","0","0","'",",","\n"," "," "," "," ","s","y","m","b","o","l",":"," ","'","T","K","A","'"," ","}",",","\n"," "," ","{"," ","a","d","d","r","e","s","s",":"," ","'","0","x","0","0","0","0","0","0","0","0","0","0","0","0","0","0","0","0","0","0","0","0","0","0","0","0","0","0","0","0","0","0","0","0","0","0","0","0","0","0","0","0","'",","," ","s","y","m","b","o","l",":"," ","'","U","S","D","C","'"," ","}",",","\n","]",";","\n","\n","e","x","p","o","r","t"," ","c","o","n","s","t"," ","C","O","N","T","R","A","C","T","S"," ","="," ","{","\n"," "," ","R","O","U","T","E","R",":"," ","'","0","x","0","0","0","0","0","0","0","0","0","0","0","0","0","0","0","0","0","0","0","0","0","0","0","0","0","0","0","0","0","0","0","0","0","0","0","0","0","0","0","0","'",",","\n"," "," ","F","A","C","T","O","R","Y",":"," ","'","0","x","0","0","0","0","0","0","0","0","0","0","0","0","0","0","0","0","0","0","0","0","0","0","0","0","0","0","0","0","0","0","0","0","0","0","0","0","0","0","0","0","'",",","\n","}",";","\n">>)

AllTypeScript == <<InitTokensTs, InitPriceFeedsTs, InitPageTsx, InitDepTokensTs>>

NoTypeScript == <<NoFile, NoFile, NoFile, NoFile>>

\* where a behaviour starts: contracts/.env, whether dex-frontend exists,
\* .env.local, the four TypeScript files
Scenes ==
    {  <<EnvLocalDeployment, TRUE, NoFile, AllTypeScript>>,
       <<EnvLocalDeployment, TRUE, ManualEnvLocal, <<NoFile, NoFile, InitPageTsx, InitDepTokensTs>> >>,
       <<EnvLaterDeployment, TRUE, ManualEnvLocal, AllTypeScript>>,
       <<EnvLaterDeployment, TRUE, NoFile, <<InitTokensTs, InitPriceFeedsTs, NoFile, NoFile>> >>,
       <<EnvLocalDeployment, TRUE, NoFile,
           <<InitTokensTs, AbiFirstPriceFeedsTs, InitPageTsx, InitDepTokensTs>> >>,
       <<EnvLocalDeployment, FALSE, NoFile, NoTypeScript>>,
       <<NoFile, TRUE, NoFile, AllTypeScript>>,
       <<EnvNoRouter, TRUE, NoFile, NoTypeScript>>,
       <<EnvEditedAfterResolve, TRUE, NoFile, NoTypeScript>>  }

\* a command-line argument, or none
NoArg == [given |-> FALSE, val |-> <<>>]

Arg(s) == [given |-> TRUE, val |-> s]

\* the runs of the synchronizer: sys.argv[1], and RPC_URL of the process
\* environment ('' when unset), which main() reads when there is no argument
SyncRuns ==
    {  <<NoArg, <<>> >>,
       <<NoArg, <<"h","t","t","p","s",":","/","/","s","e","p","o","l","i","a",".","e","x","a","m","p","l","e","/","v","3","/","k","e","y">>>>,
       <<Arg(<<"a","n","v","i","l">>), <<>> >>,
       <<Arg(<<"S","e","p","o","l","i","a">>), <<>> >>,
       <<Arg(<<"1","1","1","5","5","1","1","1">>), <<>> >>  }

Returns(a) == [raises |-> FALSE, ret |-> a]

Raises == [raises |-> TRUE, ret |-> <<>>]

\* the pair the factory holds for the i-th entry of token_pairs
PairAddress(i) == Addr(<<"1","2","3","4","5","6","7","8","9","a","b","c","d","e","f">>[i])

\* what the factory answers to the getPair calls of one run
Lookups ==
    << [i \in 1..Len(token_pairs) |-> Returns(ZeroAddress)],
       [i \in 1..Len(token_pairs) |-> IF i % 2 = 1 THEN Raises ELSE Returns(ZeroAddress)],
       [i \in 1..Len(token_pairs) |->
           IF i = 1 THEN Raises
           ELSE IF i \in {2, 4} THEN Returns(PairAddress(i))
           ELSE Returns(ZeroAddress)],
       [i \in 1..Len(token_pairs) |-> Returns(PairAddress(i))]  >>

\* the runs of the resolver: sys.argv[1] and the factory's answers
ResolveRuns ==
    {  <<NoArg, Lookups[1]>>,
       <<NoArg, Lookups[2]>>,
       <<NoArg, Lookups[3]>>,
       <<Arg(<<"1","1","1","5","5","1","1","1">>), Lookups[4]>>,
       <<Arg(<<"s","e","p","o","l","i","a">>), Lookups[4]>>  }

\* last before any operation.  Its fields: the operation ("sync", "resolve",
\* "edit"), the argument of the run, the network it selected, its exit status,
\* the resolver's pairs, the names it looked up and the answers it got, and
\* whether the run repeats the run before it: the same script, for the same
\* network, with nothing in between.
NoOp == [op |-> "none", arg |-> NoArg, network |-> <<>>, exit |-> 0,
         pairs |-> <<>>, calls |-> <<>>, lookup |-> <<>>, repeat |-> FALSE]

Init ==
    /\ \E s \in Scenes :
          /\ cenv = s[1]
          /\ frontendDir = s[2]
          /\ envLocal = s[3]
          /\ tokensTs = s[4][1]
          /\ priceFeedsTs = s[4][2]
          /\ pageTsx = s[4][3]
          /\ depTokensTs = s[4][4]
    /\ last = NoOp
    /\ left = MaxSteps

-----------------------------------------------------------------------------
(* update-frontend-config.py: main() *)

\* the network main() selects: the argument in lower case; without one,
\* 'sepolia' when RPC_URL of the environment is an https URL, else 'anvil'
select_network(arg, rpc_url) ==
    IF arg.given THEN Lower(arg.val)
    ELSE IF StartsWith(rpc_url, <<"h","t","t","p","s",":","/","/">>) THEN <<"s","e","p","o","l","i","a">>
    ELSE <<"a","n","v","i","l">>

\* A faulty sync_checks: the test for dex-frontend is left out.
sync_checks_nodir(file, dir) ==
    /\ file.ex
    /\ LET env_vars == load_env(file)
       IN  /\ DOMAIN env_vars # {}
           /\ DictGet(env_vars, <<"F","A","C","T","O","R","Y","_","A","D","D","R","E","S","S">>, <<>>) # <<>>
           /\ DictGet(env_vars, <<"R","O","U","T","E","R","_","A","D","D","R","E","S","S">>, <<>>) # <<>>

\* whether main() gets past its checks: .env exists and holds variables,
\* FACTORY_ADDRESS and ROUTER_ADDRESS are set, dex-frontend exists
sync_checks(file, dir) ==
    /\ file.ex
    /\ LET env_vars == load_env(file)
       IN  /\ DOMAIN env_vars # {}
           /\ DictGet(env_vars, <<"F","A","C","T","O","R","Y","_","A","D","D","R","E","S","S">>, <<>>) # <<>>
           /\ DictGet(env_vars, <<"R","O","U","T","E","R","_","A","D","D","R","E","S","S">>, <<>>) # <<>>
    /\ dir

\* whether main() updates the TypeScript files
updates_typescript(network) == network = <<"a","n","v","i","l">>

Sync(arg, rpc_url) ==
    /\ left > 0
    /\ LET network  == select_network(arg, rpc_url)
           env_vars == load_env(cenv)
           ok       == sync_checks(cenv, frontendDir)
           ts       == ok /\ updates_typescript(network)
       IN  /\ envLocal' = IF ok THEN update_env_local(env_vars, envLocal, network) ELSE envLocal
           /\ tokensTs' = IF ts THEN update_tokens_config(env_vars, tokensTs) ELSE tokensTs
           /\ priceFeedsTs' = IF ts THEN update_pricefeeds_config(env_vars, priceFeedsTs)
                              ELSE priceFeedsTs
           /\ pageTsx' = IF ts THEN update_page_config(env_vars, pageTsx) ELSE pageTsx
           /\ depTokensTs' = IF ts THEN update_deprecated_config(env_vars, depTokensTs)
                             ELSE depTokensTs
           /\ last' = [op |-> "sync", arg |-> arg, network |-> network,
                       exit |-> IF ok THEN 0 ELSE 1,
                       pairs |-> <<>>, calls |-> <<>>, lookup |-> <<>>,
                       repeat |-> last.op = "sync" /\ last.network = network]
    /\ left' = left - 1
    /\ UNCHANGED <<cenv, frontendDir>>

-----------------------------------------------------------------------------
(* extract-pairs.py: main() *)

\* A faulty pairs_found: the test for an empty result is left out.
pairs_found_always(pairs) == TRUE

\* "if not pairs: sys.exit(1)": whether main() goes on to write the files
pairs_found(pairs) == pairs # <<>>

\* chain_id of main(): 31337 without an argument, else int(sys.argv[1])
chain_id_of(arg) == IF arg.given THEN ParseInt(arg.val) ELSE AnvilChainId

Resolve(arg, lookup) ==
    /\ left > 0
    /\ LET parsed   == ~arg.given \/ IsNumber(arg.val)
           env_vars == IF cenv.ex THEN ParseEnv(cenv.txt) ELSE EmptyDict
           factory  == DictGet(env_vars, <<"F","A","C","T","O","R","Y","_","A","D","D","R","E","S","S">>, <<>>)
           looked   == parsed /\ factory # <<>>
           got      == get_pair_addresses(token_pairs, lookup)
           found    == looked /\ pairs_found(got.pairs)
       IN  /\ cenv' = IF found THEN update_contract_env(got.pairs, chain_id_of(arg), cenv)
                      ELSE cenv
           \* open(env_file, 'w') raises when dex-frontend does not exist
           /\ envLocal' = IF found /\ frontendDir
                          THEN update_frontend_env(got.pairs, chain_id_of(arg), envLocal)
                          ELSE envLocal
           /\ last' = [op |-> "resolve", arg |-> arg,
                       network |-> IF parsed THEN network_name(chain_id_of(arg)) ELSE <<>>,
                       exit |-> IF found /\ frontendDir THEN 0 ELSE 1,
                       pairs |-> IF looked THEN got.pairs ELSE <<>>,
                       calls |-> IF looked THEN got.calls ELSE <<>>,
                       lookup |-> IF looked THEN lookup ELSE <<>>,
                       repeat |-> last.op = "resolve" /\ last.arg = arg
                                    /\ last.lookup = (IF looked THEN lookup ELSE <<>>)]
    /\ left' = left - 1
    /\ UNCHANGED <<frontendDir, tokensTs, priceFeedsTs, pageTsx, depTokensTs>>

-----------------------------------------------------------------------------
(* A deployment rewrites contracts/.env *)

EditEnv(file) ==
    /\ left > 0
    /\ file # cenv
    /\ cenv' = file
    /\ last' = [NoOp EXCEPT !.op = "edit"]
    /\ left' = left - 1
    /\ UNCHANGED <<envLocal, frontendDir, tokensTs, priceFeedsTs, pageTsx, depTokensTs>>

Next ==
    \/ \E run \in SyncRuns : Sync(run[1], run[2])
    \/ \E run \in ResolveRuns : Resolve(run[1], run[2])
    \/ \E file \in Deployments : EditEnv(file)

Spec == Init /\ [][Next]_vars
-----------------------------------------------------------------------------
(* Properties *)

\* the variables of an environment file; none when the file is missing
EnvOf(file) == IF file.ex THEN ParseEnv(file.txt) ELSE EmptyDict

\* the value of variable k in an environment file, '' when it is not set
Value(file, k) == DictGet(EnvOf(file), k, <<>>)

\* whether the string p stands in t
Contains(t, p) == FindFrom(t, p, 1) > 0

\* the keys of .env.local that belong to the Anvil target
AnvilNamespace == {AnvilKeys[i][1] : i \in 1..Len(AnvilKeys)} \cup {AnvilRpcKey}

\* the keys of .env.local that belong to the Sepolia target
SepoliaNamespace == {SepoliaKeys[i][1] : i \in 1..Len(SepoliaKeys)} \cup {SepoliaRpcKey}

\* C1 as the specification states it: a synchronizer run that repeats the run
\* before it (the same target, contracts/.env untouched in between) leaves
\* .env.local and the four TypeScript files exactly as the first run left them.
C1_SyncIdempotent ==
    [][(last'.op = "sync" /\ last'.repeat) => artifacts' = artifacts]_vars

\* What does hold of a repeated run: .env.local, app/config/tokens.ts, page.tsx
\* and config/tokens.ts are as the first run left them.
SyncIdempotentElsewhere ==
    [][(last'.op = "sync" /\ last'.repeat) =>
          <<envLocal, tokensTs, pageTsx, depTokensTs>>'
            = <<envLocal, tokensTs, pageTsx, depTokensTs>>]_vars

\* C2: a synchronizer run for sepolia leaves every key of the Anvil namespace
\* that .env.local holds with the value it had, and a run for anvil every key
\* of the Sepolia namespace.
C2_NamespaceIsolation ==
    [][(last'.op = "sync" /\ last'.network \in {<<"s","e","p","o","l","i","a">>, <<"a","n","v","i","l">>}) =>
          LET before == EnvOf(envLocal)
              after  == EnvOf(envLocal')
              other  == IF last'.network = <<"s","e","p","o","l","i","a">> THEN AnvilNamespace
                        ELSE SepoliaNamespace
          IN  \A k \in other \cap DOMAIN before :
                  k \in DOMAIN after /\ after[k] = before[k]]_vars

\* a run for sepolia after contracts/.env has changed: the Anvil factory in
\* .env.local is still the one an earlier run wrote
C2_Witness ==
    /\ last.op = "sync" /\ last.exit = 0 /\ last.network = <<"s","e","p","o","l","i","a">>
    /\ Value(envLocal, <<"N","E","X","T","_","P","U","B","L","I","C","_","F","A","C","T","O","R","Y","_","A","D","D","R","E","S","S">>) # <<>>
    /\ Value(envLocal, <<"N","E","X","T","_","P","U","B","L","I","C","_","F","A","C","T","O","R","Y","_","A","D","D","R","E","S","S">>) # Value(cenv, <<"F","A","C","T","O","R","Y","_","A","D","D","R","E","S","S">>)
    /\ Value(envLocal, <<"N","E","X","T","_","P","U","B","L","I","C","_","S","E","P","O","L","I","A","_","F","A","C","T","O","R","Y","_","A","D","D","R","E","S","S">>) = Value(cenv, <<"F","A","C","T","O","R","Y","_","A","D","D","R","E","S","S">>)

\* the entries of token_pairs whose lookup returns an address other than zero
Resolved(lookup) ==
    {i \in 1..Len(token_pairs) : ~lookup[i].raises /\ lookup[i].ret # ZeroAddress}

\* C3: get_pair_addresses returns exactly the pairs whose lookup returned,
\* without raising, an address other than the zero address, each with that
\* address, and it looks up every pair whatever the lookups before it did.
C3_PairsResolved ==
    (last.op = "resolve" /\ last.lookup # <<>>) =>
        /\ {last.pairs[n] : n \in 1..Len(last.pairs)}
             = {<<token_pairs[i][1], last.lookup[i].ret>> : i \in Resolved(last.lookup)}
        /\ Len(last.pairs) = Cardinality(Resolved(last.lookup))
        /\ last.calls = [i \in 1..Len(token_pairs) |-> token_pairs[i][1]]

\* a run whose first lookup raises and which finds two of the later pairs
C3_Witness ==
    /\ last.op = "resolve" /\ last.lookup # <<>>
    /\ last.lookup[1].raises
    /\ Len(last.pairs) = 2
    /\ Len(last.calls) = Len(token_pairs)

\* C4: when every lookup of a resolver run returns the zero address or
\* raises, no pair is resolved and the run exits with a status other than 0.
C4_NothingResolved ==
    (last.op = "resolve" /\ last.lookup # <<>> /\ Resolved(last.lookup) = {}) =>
        last.pairs = <<>> /\ last.exit # 0

\* a run all of whose lookups return zero or raise, with dex-frontend there
C4_Witness ==
    /\ last.op = "resolve" /\ last.lookup # <<>> /\ Resolved(last.lookup) = {}
    /\ \E i \in 1..Len(token_pairs) : ~last.lookup[i].raises
    /\ frontendDir
    /\ last.exit = 1

\* whether contracts/.env gives variable k no value
Missing(file, k) == Value(file, k) = <<>>

\* the synchronizer's required inputs: contracts/.env, FACTORY_ADDRESS and
\* ROUTER_ADDRESS
SyncInputsMissing(file) ==
    ~file.ex \/ Missing(file, <<"F","A","C","T","O","R","Y","_","A","D","D","R","E","S","S">>) \/ Missing(file, <<"R","O","U","T","E","R","_","A","D","D","R","E","S","S">>)

Symbol(s) == IF s # <<>> /\ s[1] = "m" THEN Tail(s) ELSE s

\* a pair name "mAAA/mBBB" transliterated: the prefix marker of each symbol
\* stripped, "/" replaced by "_", in upper case
Transliterated(name) ==
    LET slash == FindChar(name, "/")
    IN  Upper(Symbol(SubSeq(name, 1, slash - 1)) \o <<"_">>
                \o Symbol(SubSeq(name, slash + 1, Len(name))))

\* C7: after a resolver run that exits with 0, every resolved pair stands in
\* contracts/.env as PAIR_<transliterated name> and in .env.local as
\* NEXT_PUBLIC_<NETWORK>_PAIR_<transliterated name>, with its address; the
\* pairs get different variables: each file holds as many of them as there
\* are pairs.
C7_PairNaming ==
    (last.op = "resolve" /\ last.exit = 0) =>
        LET env    == EnvOf(cenv)
            local  == EnvOf(envLocal)
            prefix == <<"N","E","X","T","_","P","U","B","L","I","C","_">> \o Upper(last.network) \o <<"_","P","A","I","R","_">>
        IN  /\ \A n \in 1..Len(last.pairs) :
                  LET name == Transliterated(last.pairs[n][1])
                  IN  /\ DictGet(env, <<"P","A","I","R","_">> \o name, <<>>) = last.pairs[n][2]
                      /\ DictGet(local, prefix \o name, <<>>) = last.pairs[n][2]
            /\ Cardinality({k \in DOMAIN env : StartsWith(k, <<"P","A","I","R","_">>)}) = Len(last.pairs)
            /\ Cardinality({k \in DOMAIN local : StartsWith(k, prefix)}) = Len(last.pairs)

\* a run for Sepolia that resolved every pair of the catalogue
C7_Witness ==
    /\ last.op = "resolve" /\ last.exit = 0 /\ last.network = <<"S","e","p","o","l","i","a">>
    /\ Value(envLocal, <<"N","E","X","T","_","P","U","B","L","I","C","_","S","E","P","O","L","I","A","_","P","A","I","R","_","U","S","D","C","_","D","A","I">>) = PairAddress(2)
    /\ Value(cenv, <<"P","A","I","R","_","U","S","D","C","_","D","A","I">>) = PairAddress(2)
    /\ Len(last.pairs) = Len(token_pairs)

\* C8 as the specification states it: without an argument the synchronizer
\* selects anvil; the keys it writes to .env.local and its decision to update
\* the TypeScript files follow the same target, so that a run which is not for
\* anvil, and leaves the TypeScript files alone, writes no address of the
\* Anvil namespace.
C8_TargetSelection ==
    [][(last'.op = "sync" /\ last'.exit = 0) =>
          /\ ~last'.arg.given => last'.network = <<"a","n","v","i","l">>
          /\ last'.network # <<"a","n","v","i","l">> =>
                LET before == EnvOf(envLocal)
                    after  == EnvOf(envLocal')
                IN  \A i \in 1..Len(AnvilKeys) :
                        DictGet(after, AnvilKeys[i][1], <<>>)
                          = DictGet(before, AnvilKeys[i][1], <<>>)]_vars

\* the value page.tsx should show for a constant: the variable's value in
\* contracts/.env, '' when it is not set
PageConstant(name, variable) == name \o <<":"," ","'">> \o Value(cenv, variable) \o <<"'">>

\* C9 as the specification states it: after a synchronizer run for anvil
\* the constants ROUTER, FACTORY, TOKEN_A and TOKEN_B of an existing page.tsx
\* hold the values of contracts/.env.
C9_PageReflectsEnv ==
    (last.op = "sync" /\ last.exit = 0 /\ last.network = <<"a","n","v","i","l">> /\ pageTsx.ex) =>
        /\ Contains(pageTsx.txt, PageConstant(<<"R","O","U","T","E","R">>, <<"R","O","U","T","E","R","_","A","D","D","R","E","S","S">>))
        /\ Contains(pageTsx.txt, PageConstant(<<"F","A","C","T","O","R","Y">>, <<"F","A","C","T","O","R","Y","_","A","D","D","R","E","S","S">>))
        /\ Contains(pageTsx.txt, PageConstant(<<"T","O","K","E","N","_","A">>, <<"T","O","K","E","N","_","A","_","A","D","D","R","E","S","S">>))
        /\ Contains(pageTsx.txt, PageConstant(<<"T","O","K","E","N","_","B">>, <<"T","O","K","E","N","_","B","_","A","D","D","R","E","S","S">>))

\* C10 as the specification states it: a synchronizer run keeps every entry
\* of .env.local that is not a key of the selected target's namespace, with
\* its value.
C10_OnlyManagedReplaced ==
    [][(last'.op = "sync" /\ last'.exit = 0) =>
          LET before  == EnvOf(envLocal)
              after   == EnvOf(envLocal')
              managed == IF last'.network = <<"s","e","p","o","l","i","a">> THEN SepoliaNamespace
                         ELSE AnvilNamespace
          IN  \A k \in DOMAIN before \ managed :
                  k \in DOMAIN after /\ after[k] = before[k]]_vars

\* the header line of the pair section of contracts/.env
IsPairHeader(line) == StartsWith(Strip(line), <<"#"," ","P","a","i","r"," ","A","d","d","r","e","s","s","e","s">>)

\* a line of contracts/.env that holds a pair address
IsPairLine(line) == StartsWith(Strip(line), <<"P","A","I","R","_">>)

\* the lines of contracts/.env that are neither the header of the pair
\* section nor a pair line, in their order
OutsidePairBlock(lines) ==
    SelectSeq(lines, LAMBDA line : ~IsPairHeader(line) /\ ~IsPairLine(line))

\* C11 as the specification states it: a resolver run that rewrites
\* contracts/.env writes back, unchanged and in their order, the lines that
\* are neither the pair header nor a pair line, and after them one pair
\* section: one header and the pair lines of this run (the empty line the
\* section opens with is allowed for).
C11_PassThrough ==
    [][(last'.op = "resolve" /\ last'.pairs # <<>>) =>
          LET kept    == OutsidePairBlock(cenv.txt)
              new     == cenv'.txt
              n       == Len(kept)
              written == SelectSeq(SubSeq(new, n + 1, Len(new)), LAMBDA line : line # <<>>)
          IN  /\ Len(new) >= n
              /\ SubSeq(new, 1, n) = kept
              /\ written # <<>>
              /\ IsPairHeader(written[1])
              /\ Tail(written) = PairLines(<<"P","A","I","R","_">>, last'.pairs)]_vars

\* C12 as the specification states it: a resolver run that repeats the
\* successful run before it (the same argument, the same answers of the
\* factory) leaves contracts/.env and .env.local as the first run left them.
C12_ResolveIdempotent ==
    [][(last'.op = "resolve" /\ last'.repeat /\ last.exit = 0 /\ last'.exit = 0) =>
          (cenv' = cenv /\ envLocal' = envLocal)]_vars

\* C13 as the specification states it: a run of either script that ends with
\* a status other than 0 has created or changed no file.
C13_NoPartialUpdate ==
    [][(last'.op \in {"sync", "resolve"} /\ last'.exit # 0) =>
          (cenv' = cenv /\ artifacts' = artifacts)]_vars

====
